---- MODULE Spec2Model ----
(***************************************************************************)
(* TextColumn<C> of odbc-api (src/odbc-api/src/buffers/text_column.rs):    *)
(* a fixed-stride value buffer with one indicator per row, the read-only   *)
(* TextColumnView and the TextColumnWriter over it.                        *)
(*                                                                         *)
(* A column is the record                                                  *)
(*   [size_of_C, max_str_len, values, indicators]                          *)
(* where size_of_C is size_of::<C>() (1 for u8, 2 for u16), values is the  *)
(* Vec<C> and indicators the Vec<isize>.  Rust indexes from 0, TLA+        *)
(* sequences from 1: element i of a Vec is s[i + 1].                       *)
(*                                                                         *)
(* Every method is an operator computed the way the code computes it.  A   *)
(* method that mutates returns [col, ok]: ok = FALSE is a panic, and col   *)
(* is then the column as the panic left it.  A method that reads returns   *)
(* [ok, ret].                                                              *)
(***************************************************************************)
EXTENDS Integers, Sequences, FiniteSets, TLC

VARIABLES
    col,        \* the TextColumn
    last,       \* the last call: its name, arguments, the column before it, its result
    panicked,   \* TRUE once a call has panicked; the thread unwinds, no call follows
    filled,     \* the items appended so far by an in-order fill (FillAppend)
    batch,      \* the batch_size the column was constructed with
    iter,       \* the TextColumnIt over the column, and what it has returned so far
    made        \* a call of try_new on its own: its arguments and its outcome

vars == <<col, last, panicked, filled, batch, iter, made>>

----------------------------------------------------------------------------
(* Bounds of the model. *)

\* Largest batch_size a column is constructed with.
MaxBatch == 2
\* Largest max_str_len a column is constructed with or resized to, and the
\* longest text passed to a call.
MaxLen == 2
\* Width in bits of the machine word try_new_in_word computes in: usize is
\* 0..USIZE_MAX, and an allocation holds at most ISIZE_MAX bytes.
WordBits == 8
USIZE_MAX == 2^WordBits - 1
ISIZE_MAX == 2^(WordBits - 1) - 1
\* size_of::<isize>()
SizeOfIsize == WordBits \div 8

(* Program constants. *)

\* odbc_sys::NULL_DATA
NULL_DATA == -1
\* odbc_sys::NO_TOTAL
NO_TOTAL == -4
\* C::default()
Default == 0

\* The code units a text is made of: the default one and another one.
Chars == {Default, 1}
\* size_of::<C>() of CharColumn = TextColumn<u8> and WCharColumn = TextColumn<u16>.
CharSizes == {1, 2}

----------------------------------------------------------------------------
(* Helpers. *)

Min(a, b) == IF a <= b THEN a ELSE b

\* Option<T>
None == [some |-> FALSE, val |-> <<>>]
\* Option<usize>::None
NoLength == [some |-> FALSE, val |-> 0]
Some(x) == [some |-> TRUE, val |-> x]

\* All sequences over S of length at most n.
RECURSIVE SeqsUpTo(_, _)
SeqsUpTo(S, n) ==
    IF n = 0 THEN {<<>>}
    ELSE LET shorter == SeqsUpTo(S, n - 1)
         IN  shorter \cup {Append(s, x) : s \in {t \in shorter : Len(t) = n - 1}, x \in S}

\* The texts passed to set_value, append and write.
Texts == SeqsUpTo(Chars, MaxLen)
\* Option<&[C]>
Items == {None} \cup {Some(t) : t \in Texts}

\* The indicator values a row can hold in this model: NULL_DATA, NO_TOTAL and the
\* byte lengths up to one element more than the largest capacity.
IndicatorValues(size) == {NULL_DATA, NO_TOTAL} \cup {n * size : n \in 0..(MaxLen + 1)}

----------------------------------------------------------------------------
(* Indicator *)

\* Indicator::from_isize
from_isize(indicator) ==
    IF indicator = NULL_DATA THEN [kind |-> "Null", n |-> 0]
    ELSE IF indicator = NO_TOTAL THEN [kind |-> "NoTotal", n |-> 0]
    ELSE [kind |-> "Length", n |-> indicator]

----------------------------------------------------------------------------
(* TextColumn *)

\* TextColumn::try_new / TextColumn::new, for sizes the allocation succeeds with.
try_new(size, batch_size, max_str_len) ==
    LET element_size == max_str_len + 1
        len == element_size * batch_size
    IN  [size_of_C   |-> size,
         max_str_len |-> max_str_len,
         values      |-> [i \in 1..len |-> Default],
         indicators  |-> [i \in 1..batch_size |-> 0]]

\* An arithmetic result x of type usize: in range it is x; out of range the operation
\* panics in a build with overflow checks (debug) and wraps in one without (release).
Overflows(x) == x > USIZE_MAX
Wrapped(x) == x % (USIZE_MAX + 1)

\* The outcomes of try_new_in_word: kind is "Ok" with the column col, "Err" with the
\* TooLargeBufferSize's num_elements and element_size, or "panic".
NoColumn == [size_of_C |-> 0, max_str_len |-> 0, values |-> <<>>, indicators |-> <<>>]
Outcome(kind, c, num_elements, element_size) ==
    [kind |-> kind, col |-> c, num_elements |-> num_elements,
     element_size |-> element_size]

\* TextColumn::try_new in the machine word.  overflow_checks is the build's setting;
\* allocates says whether the allocator grants the request of try_reserve_exact when
\* its size is one a Vec can have.  try_reserve_exact fails with a capacity overflow
\* when len elements take more than ISIZE_MAX bytes, allocates nothing for len = 0,
\* and otherwise fails when the allocator does.  vec![0; batch_size] panics with a
\* capacity overflow when batch_size isize values take more than ISIZE_MAX bytes.
try_new_in_word(size, batch_size, max_str_len, overflow_checks, allocates) ==
    LET element_size_exact == max_str_len + 1
        element_size == Wrapped(element_size_exact)
        len_exact == element_size * batch_size
        len == Wrapped(len_exact)
        reserved == IF len * size > ISIZE_MAX THEN FALSE
                    ELSE IF len = 0 THEN TRUE
                    ELSE allocates
        bytes_exact == element_size * size
    IN  IF Overflows(element_size_exact) /\ overflow_checks
        THEN Outcome("panic", NoColumn, 0, 0)
        ELSE IF Overflows(len_exact) /\ overflow_checks
        THEN Outcome("panic", NoColumn, 0, 0)
        ELSE IF ~reserved
        THEN IF Overflows(bytes_exact) /\ overflow_checks
             THEN Outcome("panic", NoColumn, 0, 0)
             ELSE Outcome("Err", NoColumn, batch_size, Wrapped(bytes_exact))
        ELSE IF batch_size * SizeOfIsize > ISIZE_MAX
        THEN Outcome("panic", NoColumn, 0, 0)
        ELSE Outcome("Ok",
                     [size_of_C   |-> size,
                      max_str_len |-> max_str_len,
                      values      |-> [i \in 1..len |-> Default],
                      indicators  |-> [i \in 1..batch_size |-> 0]],
                     0, 0)

\* TextColumn::max_len
max_len(c) == c.max_str_len

\* TextColumn::indicator_at; self.indicators[row_index] panics out of range.
indicator_at(c, row_index) ==
    IF row_index >= Len(c.indicators)
    THEN [ok |-> FALSE, ret |-> from_isize(NULL_DATA)]
    ELSE [ok |-> TRUE, ret |-> from_isize(c.indicators[row_index + 1])]

\* content_length_at without the clamp to max_str_len.
content_length_at_unclamped(c, row_index) ==
    LET ind == indicator_at(c, row_index)
    IN  IF ~ind.ok THEN [ok |-> FALSE, ret |-> NoLength]
        ELSE IF ind.ret.kind = "Null" THEN [ok |-> TRUE, ret |-> NoLength]
        ELSE IF ind.ret.kind = "NoTotal" THEN [ok |-> TRUE, ret |-> Some(c.max_str_len)]
        ELSE [ok |-> TRUE, ret |-> Some(ind.ret.n \div c.size_of_C)]

\* TextColumn::content_length_at
content_length_at(c, row_index) ==
    LET ind == indicator_at(c, row_index)
    IN  IF ~ind.ok THEN [ok |-> FALSE, ret |-> NoLength]
        ELSE IF ind.ret.kind = "Null" THEN [ok |-> TRUE, ret |-> NoLength]
        ELSE IF ind.ret.kind = "NoTotal" THEN [ok |-> TRUE, ret |-> Some(c.max_str_len)]
        ELSE LET length_in_bytes == ind.ret.n
                 length_in_chars == length_in_bytes \div c.size_of_C
                 length == Min(c.max_str_len, length_in_chars)
             IN  [ok |-> TRUE, ret |-> Some(length)]

\* TextColumn::value_at; &self.values[offset..offset + length] panics out of range.
value_at(c, row_index) ==
    LET cl == content_length_at(c, row_index)
    IN  IF ~cl.ok THEN [ok |-> FALSE, ret |-> None]
        ELSE IF ~cl.ret.some THEN [ok |-> TRUE, ret |-> None]
        ELSE LET length == cl.ret.val
                 offset == row_index * (c.max_str_len + 1)
             IN  IF offset + length > Len(c.values)
                 THEN [ok |-> FALSE, ret |-> None]
                 ELSE [ok |-> TRUE, ret |-> Some(SubSeq(c.values, offset + 1, offset + length))]

\* num_to_copy taking every element for two bytes wide.
num_to_copy_wide(c, indicator, max_copy_length) ==
    LET ind == from_isize(indicator)
    IN  IF ind.kind = "Null" THEN 0
        ELSE IF ind.kind = "NoTotal" THEN max_copy_length
        ELSE Min(ind.n \div 2, max_copy_length)

\* The number of elements resize_max_str copies for a row with this indicator.
num_to_copy(c, indicator, max_copy_length) ==
    LET ind == from_isize(indicator)
    IN  IF ind.kind = "Null" THEN 0
        ELSE IF ind.kind = "NoTotal" THEN max_copy_length
        ELSE Min(ind.n \div c.size_of_C, max_copy_length)

\* resize_max_str that also cuts the indicators down to the new capacity.
resize_max_str_clamping(c, new_max_str_len, num_rows) ==
    LET batch_size == Len(c.indicators)
        max_copy_length == Min(c.max_str_len, new_max_str_len)
        new_values ==
            [p \in 1..((new_max_str_len + 1) * batch_size) |->
                LET row == (p - 1) \div (new_max_str_len + 1)
                    k == (p - 1) % (new_max_str_len + 1)
                IN  IF row < num_rows
                       /\ k < num_to_copy(c, c.indicators[row + 1], max_copy_length)
                    THEN c.values[row * (c.max_str_len + 1) + k + 1]
                    ELSE Default]
    IN  [c EXCEPT !.values = new_values, !.max_str_len = new_max_str_len,
                  !.indicators = [i \in 1..batch_size |->
                                     Min(c.indicators[i], new_max_str_len * c.size_of_C)]]

\* TextColumn::resize_max_str
resize_max_str(c, new_max_str_len, num_rows) ==
    LET batch_size == Len(c.indicators)
        max_copy_length == Min(c.max_str_len, new_max_str_len)
        new_values ==
            [p \in 1..((new_max_str_len + 1) * batch_size) |->
                LET row == (p - 1) \div (new_max_str_len + 1)
                    k == (p - 1) % (new_max_str_len + 1)
                IN  IF row < num_rows
                       /\ k < num_to_copy(c, c.indicators[row + 1], max_copy_length)
                    THEN c.values[row * (c.max_str_len + 1) + k + 1]
                    ELSE Default]
    IN  [c EXCEPT !.values = new_values, !.max_str_len = new_max_str_len]

\* fill_null leaving out the first index of the range.
fill_null_after_first(c, from, to) ==
    [col |-> [c EXCEPT !.indicators =
                 [i \in 1..Len(c.indicators) |->
                     IF from < i - 1 /\ i - 1 < to THEN NULL_DATA ELSE c.indicators[i]]],
     ok  |-> (from >= to \/ to <= Len(c.indicators))]

\* TextColumn::fill_null; the loop panics at the first index out of range.
fill_null(c, from, to) ==
    [col |-> [c EXCEPT !.indicators =
                 [i \in 1..Len(c.indicators) |->
                     IF from <= i - 1 /\ i - 1 < to THEN NULL_DATA ELSE c.indicators[i]]],
     ok  |-> (from >= to \/ to <= Len(c.indicators))]

\* set_max_len allocating no slot for the terminating zero.
set_max_len_no_terminator(c, new_max_len) ==
    LET batch_size == Len(c.indicators)
        new_values == [i \in 1..(new_max_len * batch_size) |-> Default]
        nulled == fill_null(c, 0, batch_size).col
    IN  [nulled EXCEPT !.values = new_values, !.max_str_len = new_max_len]

\* TextColumn::set_max_len
set_max_len(c, new_max_len) ==
    LET batch_size == Len(c.indicators)
        new_values == [i \in 1..((new_max_len + 1) * batch_size) |-> Default]
        nulled == fill_null(c, 0, batch_size).col
    IN  [nulled EXCEPT !.values = new_values, !.max_str_len = new_max_len]

\* set_mut storing the length in elements, not in bytes.
set_mut_length_in_chars(c, index, length) ==
    IF length > c.max_str_len THEN [col |-> c, ok |-> FALSE]
    ELSE IF index >= Len(c.indicators) THEN [col |-> c, ok |-> FALSE]
    ELSE LET start == (c.max_str_len + 1) * index
             end == start + length
         IN  [col |-> [c EXCEPT !.indicators[index + 1] = length,
                                !.values[end + 1] = Default],
              ok  |-> TRUE]

\* TextColumn::set_mut: the indicator and the terminating zero; the slice returned is
\* self.values[start..end].
set_mut(c, index, length) ==
    IF length > c.max_str_len THEN [col |-> c, ok |-> FALSE]
    ELSE IF index >= Len(c.indicators) THEN [col |-> c, ok |-> FALSE]
    ELSE LET start == (c.max_str_len + 1) * index
             end == start + length
         IN  [col |-> [c EXCEPT !.indicators[index + 1] = length * c.size_of_C,
                                !.values[end + 1] = Default],
              ok  |-> TRUE]

\* values with text copied to values[offset..offset + text.len()]
copy_from_slice(values, offset, text) ==
    [p \in 1..Len(values) |->
        IF offset < p /\ p <= offset + Len(text) THEN text[p - offset] ELSE values[p]]

\* set_value cutting a text longer than max_str_len down to it instead of panicking.
set_value_truncating(c, index, input) ==
    IF input.some
    THEN LET length == Min(Len(input.val), c.max_str_len)
             r == set_mut(c, index, length)
             start == (c.max_str_len + 1) * index
         IN  IF ~r.ok THEN r
             ELSE [col |-> [r.col EXCEPT !.values = copy_from_slice(r.col.values, start,
                                                       SubSeq(input.val, 1, length))],
                   ok  |-> TRUE]
    ELSE IF index >= Len(c.indicators) THEN [col |-> c, ok |-> FALSE]
    ELSE [col |-> [c EXCEPT !.indicators[index + 1] = NULL_DATA], ok |-> TRUE]

\* TextColumn::set_value
set_value(c, index, input) ==
    IF input.some
    THEN LET r == set_mut(c, index, Len(input.val))
             start == (c.max_str_len + 1) * index
         IN  IF ~r.ok THEN r
             ELSE [col |-> [r.col EXCEPT !.values = copy_from_slice(r.col.values, start, input.val)],
                   ok  |-> TRUE]
    ELSE IF index >= Len(c.indicators) THEN [col |-> c, ok |-> FALSE]
    ELSE [col |-> [c EXCEPT !.indicators[index + 1] = NULL_DATA], ok |-> TRUE]

\* The slack alone: (text.len() as f64 * 0.2) as usize.
new_max_str_len_slack_only(text_len) == text_len \div 5

\* The length of the text, without slack.
new_max_str_len_exact(text_len) == text_len

\* (text.len() as f64 * 1.2) as usize: the cast truncates, and the f64 product
\* truncates to 6 * len / 5 for every len below 2,000,000.
new_max_str_len_for(text_len) == (text_len * 6) \div 5

\* append that preserves no row when it grows the buffer.
append_preserving_none(c, index, text) ==
    IF text.some
    THEN LET len == Len(text.val)
             c1 == IF len > c.max_str_len
                   THEN resize_max_str(c, new_max_str_len_for(len), 0)
                   ELSE c
             offset == index * (c1.max_str_len + 1)
         IN  IF offset + len >= Len(c1.values) THEN [col |-> c1, ok |-> FALSE]
             ELSE [col |-> [c1 EXCEPT
                               !.values = [copy_from_slice(c1.values, offset, text.val)
                                              EXCEPT ![offset + len + 1] = Default],
                               !.indicators[index + 1] = len * c1.size_of_C],
                   ok  |-> TRUE]
    ELSE IF index >= Len(c.indicators) THEN [col |-> c, ok |-> FALSE]
    ELSE [col |-> [c EXCEPT !.indicators[index + 1] = NULL_DATA], ok |-> TRUE]

\* append that preserves every row when it grows the buffer.
append_preserving_all(c, index, text) ==
    IF text.some
    THEN LET len == Len(text.val)
             c1 == IF len > c.max_str_len
                   THEN resize_max_str(c, new_max_str_len_for(len), Len(c.indicators))
                   ELSE c
             offset == index * (c1.max_str_len + 1)
         IN  IF offset + len >= Len(c1.values) THEN [col |-> c1, ok |-> FALSE]
             ELSE [col |-> [c1 EXCEPT
                               !.values = [copy_from_slice(c1.values, offset, text.val)
                                              EXCEPT ![offset + len + 1] = Default],
                               !.indicators[index + 1] = len * c1.size_of_C],
                   ok  |-> TRUE]
    ELSE IF index >= Len(c.indicators) THEN [col |-> c, ok |-> FALSE]
    ELSE [col |-> [c EXCEPT !.indicators[index + 1] = NULL_DATA], ok |-> TRUE]

\* TextColumn::append
append(c, index, text) ==
    IF text.some
    THEN LET len == Len(text.val)
             c1 == IF len > c.max_str_len
                   THEN resize_max_str(c, new_max_str_len_for(len), index)
                   ELSE c
             offset == index * (c1.max_str_len + 1)
         IN  \* self.values[offset..offset + text.len()] panics when offset + len exceeds
             \* values.len(), self.values[offset + text.len()] when it reaches it; the
             \* two agree unless the text is empty, and an empty text copies nothing.
             IF offset + len >= Len(c1.values) THEN [col |-> c1, ok |-> FALSE]
             ELSE [col |-> [c1 EXCEPT
                               !.values = [copy_from_slice(c1.values, offset, text.val)
                                              EXCEPT ![offset + len + 1] = Default],
                               !.indicators[index + 1] = len * c1.size_of_C],
                   ok  |-> TRUE]
    ELSE IF index >= Len(c.indicators) THEN [col |-> c, ok |-> FALSE]
    ELSE [col |-> [c EXCEPT !.indicators[index + 1] = NULL_DATA], ok |-> TRUE]

----------------------------------------------------------------------------
(* TextColumnView *)

\* TextColumnView::get
view_get(c, num_rows, index) == value_at(c, index)

\* TextColumnView::content_length_at
view_content_length_at(c, num_rows, row_index) ==
    IF row_index >= num_rows THEN [ok |-> FALSE, ret |-> NoLength]
    ELSE content_length_at(c, row_index)

----------------------------------------------------------------------------
(* TextColumnWriter; `to` is the limit given to TextColumn::writer_n. *)

\* TextColumnWriter::write: it.enumerate().take(self.to), set_value for each item
\* taken; taken counts the items drawn from the iterator.
RECURSIVE write_from(_, _, _, _)
write_from(c, to, it, index) ==
    IF index >= Min(Len(it), to) THEN [col |-> c, ok |-> TRUE, taken |-> index]
    ELSE LET r == set_value(c, index, it[index + 1])
         IN  IF ~r.ok THEN [col |-> r.col, ok |-> FALSE, taken |-> index + 1]
             ELSE write_from(r.col, to, it, index + 1)

\* write taking one item more than the limit.
writer_write_one_more(c, to, it) == write_from(c, to + 1, it, 0)

writer_write(c, to, it) == write_from(c, to, it, 0)

\* TextColumnWriter::set_value
writer_set_value(c, to, index, value) == set_value(c, index, value)

\* TextColumnWriter::append
writer_append(c, to, index, text) == append(c, index, text)

\* TextColumnWriter::set_mut
writer_set_mut(c, to, index, length) == set_mut(c, index, length)

\* TextColumnWriter::resize_max_str
writer_resize_max_str(c, to, new_max_str_len, num_rows) ==
    resize_max_str(c, new_max_str_len, num_rows)

\* TextColumnWriter::set_max_len
writer_set_max_len(c, to, new_max_len) == set_max_len(c, new_max_len)

\* TextColumnView::iter: the iterator of a view of num_rows rows, as [pos, num_rows].
view_iter(c, num_rows) == [pos |-> 0, num_rows |-> num_rows]

\* next_impl ending one position late.
next_impl_inclusive(it, c) ==
    IF it.pos = it.num_rows + 1 THEN [it |-> it, ok |-> TRUE, some |-> FALSE, item |-> None]
    ELSE LET r == value_at(c, it.pos)
         IN  IF ~r.ok THEN [it |-> it, ok |-> FALSE, some |-> FALSE, item |-> None]
             ELSE [it |-> [it EXCEPT !.pos = @ + 1], ok |-> TRUE, some |-> TRUE,
                   item |-> r.ret]

\* TextColumnIt::next_impl, which Iterator::next of both element types returns: for
\* u16 each slice is wrapped as a U16Str over the same elements.  The result is
\* [it, ok, some, item]: it the iterator after the call, some = FALSE for None, item
\* the Option<&[C]> inside Some.
next_impl(it, c) ==
    IF it.pos = it.num_rows THEN [it |-> it, ok |-> TRUE, some |-> FALSE, item |-> None]
    ELSE LET r == value_at(c, it.pos)
         IN  IF ~r.ok THEN [it |-> it, ok |-> FALSE, some |-> FALSE, item |-> None]
             ELSE [it |-> [it EXCEPT !.pos = @ + 1], ok |-> TRUE, some |-> TRUE,
                   item |-> r.ret]

\* Iterator::size_hint: (len, Some(len)); the value is len.
size_hint(it) == it.num_rows - it.pos

----------------------------------------------------------------------------
(* The state machine. *)

\* No iterator: active = FALSE.  An iterator is the TextColumnIt's pos and num_rows
\* (its col is the column); calls counts the calls of next, yielded lists the items
\* they returned as Some(item), ended is TRUE once one of them returned None.
NoIter == [active |-> FALSE, pos |-> 0, num_rows |-> 0, calls |-> 0, yielded |-> <<>>,
           ended |-> FALSE]

\* No call of try_new.
NotMade == [called |-> FALSE]

\* The record of a call: op its name; row the row index (from for fill_null); n the
\* second number (num_rows of resize_max_str, to of fill_null, num_rows of a view,
\* the limit of a writer); len a length (new_max_str_len, new_max_len, length) or
\* the indicator the driver wrote;
\* item, items the Option<&[C]> arguments; pre the column before the call; ok = FALSE
\* when the call panicked; ret what a reading call returned; taken the number of
\* items write drew from its iterator.
NoCall == [op |-> "none", row |-> 0, n |-> 0, len |-> 0, item |-> None, items |-> <<>>,
           pre |-> <<>>, ok |-> TRUE, ret |-> None, taken |-> 0]

\* TextColumn::new(batch_size, max_str_len) for u8 and u16
Init ==
    /\ batch \in 1..MaxBatch
    /\ \E size \in CharSizes, max_str_len \in 0..MaxLen :
          col = try_new(size, batch, max_str_len)
    /\ last = NoCall
    /\ panicked = FALSE
    /\ filled = <<>>
    /\ iter = NoIter
    /\ made = NotMade

\* A call can be made: no call has panicked, the record of the call before has been
\* dropped, and no iterator borrows the column.
Ready == ~panicked /\ last.op = "none" /\ ~iter.active

\* The row indexes passed to a call: every row of the column and one beyond.
Rows == 0..Len(col.indicators)
\* The lengths passed to a call.
Lens == 0..MaxLen

\* A mutating call with result r = [col, ok].
Mutate(call, r) ==
    /\ col' = r.col
    /\ panicked' = ~r.ok
    /\ last' = [call EXCEPT !.pre = col, !.ok = r.ok]
    /\ UNCHANGED <<filled, batch, iter, made>>

\* A reading call with result r = [ok, ret].
Read(call, r) ==
    /\ panicked' = ~r.ok
    /\ last' = [call EXCEPT !.pre = col, !.ok = r.ok, !.ret = r.ret]
    /\ UNCHANGED <<col, filled, batch, iter, made>>

ValueAt ==
    /\ Ready
    /\ \E row_index \in Rows :
          Read([NoCall EXCEPT !.op = "value_at", !.row = row_index],
               value_at(col, row_index))

ContentLengthAt ==
    /\ Ready
    /\ \E row_index \in Rows :
          Read([NoCall EXCEPT !.op = "content_length_at", !.row = row_index],
               content_length_at(col, row_index))

SetValue ==
    /\ Ready
    /\ \E index \in Rows, input \in Items :
          Mutate([NoCall EXCEPT !.op = "set_value", !.row = index, !.item = input],
                 set_value(col, index, input))

SetMut ==
    /\ Ready
    /\ \E index \in Rows, length \in Lens :
          Mutate([NoCall EXCEPT !.op = "set_mut", !.row = index, !.len = length],
                 set_mut(col, index, length))

\* The items append is called with: the texts of the other calls and three longer
\* ones, of up to MaxLen + 3 elements, for which append has to grow the buffer, the
\* longest with slack.
LongText(n) == [i \in 1..n |-> i % 2]
FillItems == Items \cup {Some(LongText(n)) : n \in (MaxLen + 1)..(MaxLen + 3)}

AppendCall ==
    /\ Ready
    /\ \E index \in Rows, text \in FillItems :
          Mutate([NoCall EXCEPT !.op = "append", !.row = index, !.item = text],
                 append(col, index, text))

ResizeMaxStr ==
    /\ Ready
    /\ \E new_max_str_len \in Lens, num_rows \in Rows :
          Mutate([NoCall EXCEPT !.op = "resize_max_str", !.len = new_max_str_len,
                                !.n = num_rows],
                 [col |-> resize_max_str(col, new_max_str_len, num_rows), ok |-> TRUE])

SetMaxLen ==
    /\ Ready
    /\ \E new_max_len \in Lens :
          Mutate([NoCall EXCEPT !.op = "set_max_len", !.len = new_max_len],
                 [col |-> set_max_len(col, new_max_len), ok |-> TRUE])

FillNull ==
    /\ Ready
    /\ \E from \in Rows, to \in Rows :
          Mutate([NoCall EXCEPT !.op = "fill_null", !.row = from, !.n = to],
                 fill_null(col, from, to))

\* CDataMut::mut_indicator_ptr / mut_value_ptr: the driver writes one row of a fetched
\* row group through the bound pointers: any indicator, any elements in the row's slot.
NativeWrite ==
    /\ Ready
    /\ \E row \in 0..(Len(col.indicators) - 1),
          indicator \in IndicatorValues(col.size_of_C),
          slot \in [1..(col.max_str_len + 1) -> Chars] :
          Mutate([NoCall EXCEPT !.op = "native", !.row = row, !.len = indicator],
                 [col |-> [col EXCEPT
                              !.indicators[row + 1] = indicator,
                              !.values = copy_from_slice(col.values,
                                             row * (col.max_str_len + 1), slot)],
                  ok  |-> TRUE])

\* ColumnBuffer::view(valid_rows), then TextColumnView::get
ViewGet ==
    /\ Ready
    /\ \E num_rows \in 0..Len(col.indicators), index \in Rows :
          Read([NoCall EXCEPT !.op = "view.get", !.n = num_rows, !.row = index],
               view_get(col, num_rows, index))

\* ColumnBuffer::view(valid_rows), then TextColumnView::content_length_at
ViewContentLengthAt ==
    /\ Ready
    /\ \E num_rows \in 0..Len(col.indicators), row_index \in Rows :
          Read([NoCall EXCEPT !.op = "view.content_length_at", !.n = num_rows,
                              !.row = row_index],
               view_content_length_at(col, num_rows, row_index))

\* The limits given to writer_n.
Limits == 0..Len(col.indicators)

\* TextColumn::writer_n(n), then TextColumnWriter::write
WriterWrite ==
    /\ Ready
    /\ \E to \in Limits, it \in SeqsUpTo(Items, MaxBatch) :
          LET r == writer_write(col, to, it)
          IN  Mutate([NoCall EXCEPT !.op = "writer.write", !.n = to, !.items = it,
                                    !.taken = r.taken],
                     [col |-> r.col, ok |-> r.ok])

\* TextColumn::writer_n(n), then TextColumnWriter::set_value
WriterSetValue ==
    /\ Ready
    /\ \E to \in Limits, index \in Rows, value \in Items :
          Mutate([NoCall EXCEPT !.op = "writer.set_value", !.n = to, !.row = index,
                                !.item = value],
                 writer_set_value(col, to, index, value))

\* TextColumn::writer_n(n), then TextColumnWriter::append
WriterAppend ==
    /\ Ready
    /\ \E to \in Limits, index \in Rows, text \in Items :
          Mutate([NoCall EXCEPT !.op = "writer.append", !.n = to, !.row = index,
                                !.item = text],
                 writer_append(col, to, index, text))

\* TextColumn::writer_n(n), then TextColumnWriter::set_mut
WriterSetMut ==
    /\ Ready
    /\ \E to \in Limits, index \in Rows, length \in Lens :
          Mutate([NoCall EXCEPT !.op = "writer.set_mut", !.n = to, !.row = index,
                                !.len = length],
                 writer_set_mut(col, to, index, length))

\* The caller drops its record of the last call; the column stays as it is.  No call
\* follows on a column an append has grown beyond MaxLen.
Forget ==
    /\ last.op # "none"
    /\ ~panicked
    /\ col.max_str_len <= MaxLen
    /\ last' = NoCall
    /\ UNCHANGED <<col, panicked, filled, batch, iter, made>>

\* An in-order fill: append at the row after the last one appended.
FillAppend ==
    /\ ~panicked
    /\ Len(filled) < Len(col.indicators)
    /\ \E text \in FillItems :
          LET r == append(col, Len(filled), text)
          IN  /\ col' = r.col
              /\ panicked' = ~r.ok
              /\ last' = [NoCall EXCEPT !.op = "append", !.row = Len(filled),
                                        !.item = text, !.pre = col, !.ok = r.ok]
              /\ filled' = Append(filled, text)
              /\ UNCHANGED <<batch, iter, made>>

\* ColumnBuffer::view(valid_rows), then TextColumnView::iter.  valid_rows is any
\* number up to one more than the rows of the column: view does not compare it with
\* the batch size.
ViewIter ==
    /\ Ready
    /\ \E valid_rows \in 0..(Len(col.indicators) + 1) :
          iter' = [NoIter EXCEPT !.active = TRUE,
                                 !.pos = view_iter(col, valid_rows).pos,
                                 !.num_rows = view_iter(col, valid_rows).num_rows]
    /\ UNCHANGED <<col, last, panicked, filled, batch, made>>

\* Iterator::next on the TextColumnIt, until a call returns None.
IterNext ==
    /\ iter.active
    /\ ~panicked
    /\ ~iter.ended
    /\ LET r == next_impl(iter, col)
       IN  /\ panicked' = ~r.ok
           /\ iter' = [iter EXCEPT !.pos = r.it.pos,
                                   !.calls = @ + 1,
                                   !.yielded = IF r.ok /\ r.some THEN Append(@, r.item)
                                               ELSE @,
                                   !.ended = r.ok /\ ~r.some]
    /\ UNCHANGED <<col, last, filled, batch, made>>

\* TextColumn::<C>::try_new(batch_size, max_str_len) with any two words, in a build
\* with or without overflow checks, the allocator granting the buffer or not.
TryNew ==
    /\ ~made.called
    /\ \E size \in CharSizes, batch_size \in 0..USIZE_MAX, max_str_len \in 0..USIZE_MAX,
          overflow_checks \in BOOLEAN, allocates \in BOOLEAN :
          LET out == try_new_in_word(size, batch_size, max_str_len, overflow_checks,
                                     allocates)
          IN  /\ made' = [called |-> TRUE, size |-> size, batch_size |-> batch_size,
                          max_str_len |-> max_str_len,
                          overflow_checks |-> overflow_checks, out |-> out]
              /\ col' = IF out.kind = "Ok" THEN out.col ELSE col
              /\ batch' = IF out.kind = "Ok" THEN batch_size ELSE batch
              /\ panicked' = (out.kind = "panic")
    /\ UNCHANGED <<last, filled, iter>>

\* The column and the calls on it.
Next ==
    \/ ValueAt
    \/ ContentLengthAt
    \/ SetValue
    \/ SetMut
    \/ AppendCall
    \/ ResizeMaxStr
    \/ SetMaxLen
    \/ FillNull
    \/ NativeWrite
    \/ Forget

Spec == Init /\ [][Next]_vars

\* A view over the column the driver fetched into.
NextView ==
    \/ NativeWrite
    \/ ViewGet
    \/ ViewContentLengthAt
    \/ Forget

SpecView == Init /\ [][NextView]_vars

\* A writer over the column.
NextWriter ==
    \/ NativeWrite
    \/ WriterWrite
    \/ WriterSetValue
    \/ WriterAppend
    \/ WriterSetMut
    \/ Forget

SpecWriter == Init /\ [][NextWriter]_vars

\* An iterator over a view of the column the driver fetched into.
NextIter ==
    \/ NativeWrite
    \/ Forget
    \/ ViewIter
    \/ IterNext

SpecIter == Init /\ [][NextIter]_vars

\* A fresh column, of one row more than the other specifications construct, filled in
\* row order with append.
InitFill ==
    /\ batch \in 1..(MaxBatch + 1)
    /\ \E size \in CharSizes, max_str_len \in 0..MaxLen :
          col = try_new(size, batch, max_str_len)
    /\ last = NoCall
    /\ panicked = FALSE
    /\ filled = <<>>
    /\ iter = NoIter
    /\ made = NotMade

NextFill == FillAppend

SpecFill == InitFill /\ [][NextFill]_vars

\* Before any column is constructed: try_new is called once.
InitNew ==
    /\ col = NoColumn
    /\ batch = 0
    /\ last = NoCall
    /\ panicked = FALSE
    /\ filled = <<>>
    /\ iter = NoIter
    /\ made = NotMade

NextNew == TryNew

SpecNew == InitNew /\ [][NextNew]_vars

----------------------------------------------------------------------------
(* Properties. *)

\* The slot of row j: its max_str_len + 1 elements of values.
RowSlot(c, j) == SubSeq(c.values, j * (c.max_str_len + 1) + 1, (j + 1) * (c.max_str_len + 1))

\* Row j has the same indicator and the same elements in c and d.
SameRow(c, d, j) ==
    /\ c.indicators[j + 1] = d.indicators[j + 1]
    /\ RowSlot(c, j) = RowSlot(d, j)

Returned(x) == [ok |-> TRUE, ret |-> x]

\* C1: in every state reachable from the constructor by set_value, set_mut, append,
\* resize_max_str, set_max_len and fill_null (and the driver's writes), values holds
\* (max_str_len + 1) * batch_size elements and indicators batch_size, batch_size being
\* the one given to the constructor.
C1_Layout ==
    /\ Len(col.values) = (col.max_str_len + 1) * batch
    /\ Len(col.indicators) = batch

\* C1 witness: a resize_max_str has changed max_str_len of a column of MaxBatch rows.
C1_Witness ==
    /\ last.op = "resize_max_str"
    /\ batch = MaxBatch
    /\ col.max_str_len # last.pre.max_str_len

\* C2: after set_value(row, Some(data)) with row < batch_size and data.len() <= max_len,
\* value_at(row) is Some(data) and content_length_at(row) is Some(data.len()); after
\* set_value(row, None), both are None.
C2_SetValueRoundTrip ==
    (last.op = "set_value" /\ last.row < batch) =>
        IF last.item.some
        THEN Len(last.item.val) <= last.pre.max_str_len =>
                /\ last.ok
                /\ value_at(col, last.row) = Returned(last.item)
                /\ content_length_at(col, last.row) = Returned(Some(Len(last.item.val)))
        ELSE /\ last.ok
             /\ value_at(col, last.row) = Returned(None)
             /\ content_length_at(col, last.row) = Returned(NoLength)

\* C2 witness: set_value has written a text of two elements, not all default, to row 1
\* of a u16 column.
C2_Witness ==
    /\ last.op = "set_value"
    /\ last.ok
    /\ last.row = 1
    /\ last.item.some
    /\ Len(last.item.val) = 2
    /\ last.item.val[2] # Default
    /\ col.size_of_C = 2

\* C3: a fresh column filled by append(0, x_0), ..., append(k, x_k) in row order reads
\* value_at(i) = x_i for every i <= k, and max_len is at least the length of every
\* Some item; no call panics.
C3_InOrderFill ==
    /\ ~panicked
    /\ \A i \in 0..(Len(filled) - 1) :
          /\ value_at(col, i) = Returned(filled[i + 1])
          /\ filled[i + 1].some => col.max_str_len >= Len(filled[i + 1].val)

\* C3 witness: the third append has grown the buffer, to more than the length of its
\* text, the first two rows holding texts that are not empty.
C3_Witness ==
    /\ Len(filled) = 3
    /\ last.pre.max_str_len < col.max_str_len
    /\ filled[3].some /\ Len(filled[3].val) < col.max_str_len
    /\ filled[1].some /\ Len(filled[1].val) >= 1
    /\ filled[2].some /\ Len(filled[2].val) >= 1
    /\ filled[2].val[1] # Default

\* C4: in any state, append(i, Some(x)) with i < batch_size returns, value_at(i) is then
\* Some(x), max_len is unchanged when x.len() <= max_len before the call and at least
\* x.len() otherwise.
C4_AppendRoundTrip ==
    (last.op = "append" /\ last.row < batch /\ last.item.some) =>
        /\ last.ok
        /\ value_at(col, last.row) = Returned(last.item)
        /\ Len(last.item.val) <= last.pre.max_str_len =>
              col.max_str_len = last.pre.max_str_len
        /\ Len(last.item.val) > last.pre.max_str_len =>
              col.max_str_len >= Len(last.item.val)

\* C4 witness: append to row 1 has grown the buffer of a column whose row 0 the driver
\* had left with NO_TOTAL.
C4_Witness ==
    /\ last.op = "append"
    /\ last.ok
    /\ last.row = 1
    /\ last.item.some
    /\ Len(last.item.val) > last.pre.max_str_len
    /\ last.pre.indicators[1] = NO_TOTAL

\* The content length of a row before the last call, as an Option.
PreLength(row) == content_length_at(last.pre, row).ret

\* The row's content length before the last call was at most min(old, new) max_len;
\* a Null row has none and is covered.
WithinBoth(row) ==
    PreLength(row).some =>
        PreLength(row).val <= Min(last.pre.max_str_len, last.len)

\* C5 as stated: after resize_max_str(new_len, k), every row < k whose content length
\* before the call was <= min(old_max_len, new_len) reads the same value_at as before,
\* whatever its indicator.
C5_ResizePreservesPrefix_AsStated ==
    last.op = "resize_max_str" =>
        \A row \in 0..(batch - 1) :
            (row < last.n /\ WithinBoth(row)) =>
                value_at(col, row) = value_at(last.pre, row)

\* The row's indicator before the last call was Null or a Length within the old
\* capacity.
PreExact(row) ==
    LET ind == from_isize(last.pre.indicators[row + 1])
    IN  \/ ind.kind = "Null"
        \/ ind.kind = "Length" /\ ind.n \div last.pre.size_of_C <= last.pre.max_str_len

\* C5 amended: after resize_max_str(new_len, k), for every row < k whose content length
\* c before the call was <= min(old_max_len, new_len), the first c elements of the row
\* are the ones value_at returned before; value_at itself is the same as before when the
\* indicator is Null or a Length within the old capacity, or when new_len <= old_max_len.
C5_ResizePreservesPrefix ==
    last.op = "resize_max_str" =>
        \A row \in 0..(batch - 1) :
            (row < last.n /\ WithinBoth(row)) =>
                /\ PreLength(row).some =>
                      SubSeq(RowSlot(col, row), 1, PreLength(row).val)
                          = value_at(last.pre, row).ret.val
                /\ (PreExact(row) \/ last.len <= last.pre.max_str_len) =>
                      value_at(col, row) = value_at(last.pre, row)

\* C5 witness: resize_max_str has grown a column, preserving both rows: row 0 held
\* NO_TOTAL, row 1 a Length within the capacity, neither with default elements first.
C5_Witness ==
    /\ last.op = "resize_max_str"
    /\ batch = 2
    /\ last.n = 2
    /\ last.len > last.pre.max_str_len
    /\ last.pre.indicators[1] = NO_TOTAL
    /\ RowSlot(last.pre, 0)[1] # Default
    /\ last.pre.indicators[2] = last.pre.size_of_C
    /\ RowSlot(last.pre, 1)[1] # Default

\* C6: for every row < batch_size, content_length_at is None for Null, Some(max_len) for
\* NoTotal and Some(min(max_len, n / size_of::<C>())) for Length(n); it and the length
\* of value_at's slice never exceed max_len; a Length(n) beyond the capacity reads
\* Some(max_len) while indicator_at reports n, the value the driver wrote.
C6_ContentLength ==
    /\ \A row \in 0..(batch - 1) :
          LET ind == from_isize(col.indicators[row + 1])
              cl == content_length_at(col, row)
              v == value_at(col, row)
          IN  /\ cl.ok /\ v.ok
              /\ ind.kind = "Null" => cl.ret = NoLength /\ v.ret = None
              /\ ind.kind = "NoTotal" => cl.ret = Some(col.max_str_len)
              /\ ind.kind = "Length" =>
                    cl.ret = Some(Min(col.max_str_len, ind.n \div col.size_of_C))
              /\ cl.ret.some =>
                    /\ cl.ret.val <= col.max_str_len
                    /\ v.ret.some
                    /\ Len(v.ret.val) = cl.ret.val
              /\ (ind.kind = "Length" /\ ind.n \div col.size_of_C > col.max_str_len) =>
                    /\ cl.ret = Some(col.max_str_len)
                    /\ indicator_at(col, row).ret = [kind |-> "Length", n |-> ind.n]
    /\ (last.op = "native" /\ last.len >= 0) =>
          indicator_at(col, last.row) = Returned([kind |-> "Length", n |-> last.len])
    /\ (last.op = "content_length_at" /\ last.row < batch) =>
          /\ last.ok
          /\ last.ret.some => last.ret.val <= col.max_str_len

\* C6 witness: content_length_at has returned Some(max_len) for a row of a u16 column
\* whose Length indicator is beyond the capacity.
C6_Witness ==
    /\ last.op = "content_length_at"
    /\ last.row < batch
    /\ col.size_of_C = 2
    /\ col.max_str_len >= 1
    /\ col.indicators[last.row + 1] \div 2 > col.max_str_len
    /\ last.ret = Some(col.max_str_len)

\* C7: a view of num_valid_rows = n gives access to the rows below n only: get(row) and
\* content_length_at(row) with row >= n do not return.
C7_ViewBounded ==
    (last.op \in {"view.get", "view.content_length_at"} /\ last.row >= last.n) =>
        ~last.ok

\* C8: no call of write, set_value, append or set_mut through a writer of limit n
\* changes the indicator or the elements of a row >= n, and a call addressing a row in
\* [n, batch_size) does not return.
C8_WriterBounded ==
    last.op \in {"writer.write", "writer.set_value", "writer.append", "writer.set_mut"} =>
        /\ \A j \in last.n..(batch - 1) : SameRow(col, last.pre, j)
        /\ (last.op # "writer.write" /\ last.n <= last.row /\ last.row < batch) =>
              ~last.ok

\* Every item of the last write fits the column as it was.
AllFit == \A i \in 1..Len(last.items) :
              last.items[i].some => Len(last.items[i].val) <= last.pre.max_str_len

\* C9: write over m items that all fit, through a writer of limit n <= batch_size, takes
\* min(m, n) items; row i is as set_value(i, item i) leaves it and reads item i, for
\* i < min(m, n); every row from min(m, n) on keeps its indicator and elements; max_len
\* is unchanged.
C9_WriteFrame ==
    (last.op = "writer.write" /\ last.n <= batch /\ AllFit) =>
        LET k == Min(Len(last.items), last.n)
        IN  /\ last.ok
            /\ last.taken = k
            /\ col.max_str_len = last.pre.max_str_len
            /\ \A i \in 0..(k - 1) :
                  /\ SameRow(col, set_value(last.pre, i, last.items[i + 1]).col, i)
                  /\ value_at(col, i) = Returned(last.items[i + 1])
            /\ \A j \in k..(batch - 1) : SameRow(col, last.pre, j)

\* C9 witness: write of two items through a writer of limit 1 over a column of two rows
\* whose row 1 the driver had left with NO_TOTAL and an element that is not default.
C9_Witness ==
    /\ last.op = "writer.write"
    /\ last.ok
    /\ batch = 2
    /\ last.n = 1
    /\ Len(last.items) = 2
    /\ AllFit
    /\ last.items[1].some /\ Len(last.items[1].val) >= 1
    /\ last.items[2].some /\ Len(last.items[2].val) >= 1
    /\ last.pre.indicators[2] = NO_TOTAL
    /\ RowSlot(last.pre, 1)[1] # Default

\* C10: resize_max_str leaves every indicator as it was, for every new_max_str_len and
\* num_rows: indicator_at(row) is the same before and after for every row < batch_size.
C10_ResizeKeepsIndicators ==
    last.op = "resize_max_str" =>
        /\ last.ok
        /\ \A row \in 0..(batch - 1) :
              indicator_at(col, row) = indicator_at(last.pre, row)

\* C10 witness: resize_max_str has shrunk a column of two rows, preserving one; row 1
\* held a Length beyond the old capacity, row 0 one beyond the new.
C10_Witness ==
    /\ last.op = "resize_max_str"
    /\ batch = 2
    /\ last.n = 1
    /\ last.len < last.pre.max_str_len
    /\ last.pre.indicators[1] >= 0
    /\ last.pre.indicators[1] \div col.size_of_C > last.len
    /\ last.pre.indicators[2] \div col.size_of_C > last.pre.max_str_len

\* C11: after set_max_len(new_max_len), whatever the column held before, value_at(row)
\* and content_length_at(row) return None for every row < batch_size, max_len() is
\* new_max_len, and every element of values is the default one.
C11_SetMaxLenClears ==
    last.op = "set_max_len" =>
        /\ last.ok
        /\ \A row \in 0..(batch - 1) :
              /\ value_at(col, row) = Returned(None)
              /\ content_length_at(col, row) = Returned(NoLength)
        /\ max_len(col) = last.len
        /\ \A p \in 1..Len(col.values) : col.values[p] = Default

\* C11 witness: set_max_len on a column of MaxBatch rows none of which was Null, one of
\* them holding a non-default element, and the new buffer is not empty.
C11_Witness ==
    /\ last.op = "set_max_len"
    /\ batch = MaxBatch
    /\ \A row \in 0..(batch - 1) : last.pre.indicators[row + 1] # NULL_DATA
    /\ \E p \in 1..Len(last.pre.values) : last.pre.values[p] # Default
    /\ last.len > 0

\* C12: an iterator of a view of n <= batch_size rows, after k calls of next: the
\* calls have returned min(k, n) items and no more, the i-th of them value_at(i) for
\* i = 0..n-1 in row order, so that no row in [n, batch_size) is produced; the call
\* after the n-th item, and no call before it, has returned None; no call has
\* panicked; and while k <= n the size hint is n - k.
C12_IterBounded ==
    (iter.active /\ iter.num_rows <= batch) =>
        /\ ~panicked
        /\ Len(iter.yielded) = Min(iter.calls, iter.num_rows)
        /\ \A i \in 0..(Len(iter.yielded) - 1) :
              value_at(col, i) = Returned(iter.yielded[i + 1])
        /\ iter.ended <=> iter.calls > iter.num_rows
        /\ iter.calls <= iter.num_rows => size_hint(iter) = iter.num_rows - iter.calls

\* C12 witness: an iterator of a view of one row of a column of two has returned the
\* text of row 0 and then None, row 1 holding another text.
C12_Witness ==
    /\ iter.active
    /\ batch = 2
    /\ iter.num_rows = 1
    /\ iter.ended
    /\ Len(iter.yielded) = 1
    /\ iter.yielded[1].some
    /\ Len(iter.yielded[1].val) > 0
    /\ value_at(col, 1).ret.some
    /\ value_at(col, 1).ret # iter.yielded[1]

\* C13: value_at, content_length_at, set_value, set_mut and append with row >=
\* batch_size panic; set_value with a text longer than max_len and set_mut with a
\* length greater than max_len panic, and leave the column as it was; value_at and
\* content_length_at with row < batch_size do not panic, whether the row's indicator
\* is Null, NoTotal or a Length.
C13_ContractViolationsPanic ==
    /\ (last.op \in {"value_at", "content_length_at", "set_value", "set_mut", "append"}
          /\ last.row >= batch) => ~last.ok
    /\ (last.op = "set_value" /\ last.item.some
          /\ Len(last.item.val) > last.pre.max_str_len) =>
             (~last.ok /\ col = last.pre)
    /\ (last.op = "set_mut" /\ last.len > last.pre.max_str_len) =>
             (~last.ok /\ col = last.pre)
    /\ (last.op \in {"value_at", "content_length_at"} /\ last.row < batch) => last.ok

\* C13 witness: set_value on a row of a column of two rows, with a text longer than
\* its max_len > 0, has panicked.
C13_Witness ==
    /\ last.op = "set_value"
    /\ last.row < batch
    /\ batch = 2
    /\ last.item.some
    /\ Len(last.item.val) > last.pre.max_str_len
    /\ last.pre.max_str_len > 0
    /\ ~last.ok
    /\ panicked

\* C14: for every batch_size and max_len of the machine word, try_new returns either
\* a column of max_len with values.len() == (max_len + 1) * batch_size and
\* indicators.len() == batch_size, or the error with num_elements == batch_size and
\* element_size == (max_len + 1) * size_of::<C>(); it does not panic.
C14_FallibleConstruction ==
    made.called =>
        \/ /\ made.out.kind = "Ok"
           /\ made.out.col.max_str_len = made.max_str_len
           /\ Len(made.out.col.values) = (made.max_str_len + 1) * made.batch_size
           /\ Len(made.out.col.indicators) = made.batch_size
        \/ /\ made.out.kind = "Err"
           /\ made.out.num_elements = made.batch_size
           /\ made.out.element_size = (made.max_str_len + 1) * made.size

\* append(row, Some(data)) on a row of the column.
AppendSome == last.op = "append" /\ last.row < batch /\ last.item.some

\* The column after append(row, Some(data)) is the one resize_max_str(new_max_len, row)
\* and then set_value(row, Some(data)) make of the column before the call.
ResizedThenWritten(new_max_len) ==
    LET resized == resize_max_str(last.pre, new_max_len, last.row)
    IN  /\ last.ok
        /\ col.max_str_len = new_max_len
        /\ col = set_value(resized, last.row, last.item).col
        \* the rows [0, row) were migrated: a row that was Null or whose text the old
        \* buffer held whole reads as before
        /\ \A j \in 0..(last.row - 1) :
              PreExact(j) => value_at(col, j) = value_at(last.pre, j)
        \* and no other row was: the slots after row hold default elements only
        /\ \A j \in (last.row + 1)..(batch - 1) :
              \A k \in 1..(col.max_str_len + 1) : RowSlot(col, j)[k] = Default

\* C15 as stated, with the new max_len the ceiling of data.len() * 1.2.
C15_GrowthPolicy_AsStated ==
    AppendSome =>
        LET len == Len(last.item.val)
        IN  IF len > last.pre.max_str_len
            THEN ResizedThenWritten((6 * len + 4) \div 5)
            ELSE col.max_str_len = last.pre.max_str_len

\* C15: append(row, Some(data)) with data.len() > max_len resizes the column as
\* resize_max_str(n, row) does before it writes, n being data.len() * 1.2 rounded
\* down (5 * n <= 6 * data.len() < 5 * (n + 1)): afterwards max_len == n, the rows
\* [0, row) were migrated and no other row; with data.len() <= max_len the buffer is not
\* resized: max_len and every row but row are as before.
C15_GrowthPolicy ==
    AppendSome =>
        LET len == Len(last.item.val)
        IN  IF len > last.pre.max_str_len
            THEN \E n \in len..(2 * len) :
                    /\ 5 * n <= 6 * len
                    /\ 6 * len < 5 * (n + 1)
                    /\ ResizedThenWritten(n)
            ELSE /\ last.ok
                 /\ col.max_str_len = last.pre.max_str_len
                 /\ Len(col.values) = Len(last.pre.values)
                 /\ \A j \in 0..(batch - 1) : j # last.row => SameRow(col, last.pre, j)

\* C15 witness: append of a text of five elements on the second row of a column has
\* grown the buffer to max_len 6, the first row holding a text before and after.
C15_Witness ==
    /\ AppendSome
    /\ last.ok
    /\ last.row = 1
    /\ Len(last.item.val) = MaxLen + 3
    /\ col.max_str_len > Len(last.item.val)
    /\ PreExact(0)
    /\ value_at(col, 0).ret.some
    /\ Len(value_at(col, 0).ret.val) > 0

\* The sequence of n default elements.
Zeroes(n) == [i \in 1..n |-> Default]

\* C16: after an append(row, Some(data)) that grew the buffer, every row j > row has
\* the indicator it had before and a slot of default elements only, and value_at(j)
\* returns None for a Null indicator and otherwise the slice of default elements of
\* the length the indicator implies: the new max_len for NoTotal, the indicated
\* length cut down to the new max_len for a Length.
C16_LaterRowsZeroed ==
    (AppendSome /\ Len(last.item.val) > last.pre.max_str_len) =>
        /\ last.ok
        /\ \A j \in (last.row + 1)..(batch - 1) :
              LET ind == from_isize(last.pre.indicators[j + 1])
              IN  /\ col.indicators[j + 1] = last.pre.indicators[j + 1]
                  /\ RowSlot(col, j) = Zeroes(col.max_str_len + 1)
                  /\ value_at(col, j) =
                        Returned(IF ind.kind = "Null" THEN None
                                 ELSE IF ind.kind = "NoTotal"
                                 THEN Some(Zeroes(col.max_str_len))
                                 ELSE Some(Zeroes(Min(ind.n \div col.size_of_C,
                                                      col.max_str_len))))

\* C16 witness: append on row 0 has grown the buffer of a column whose row 1 held a
\* text with an element that is not the default one; row 1 now reads a text of the
\* same length.
C16_Witness ==
    /\ AppendSome
    /\ last.ok
    /\ last.row = 0
    /\ batch = 2
    /\ Len(last.item.val) > last.pre.max_str_len
    /\ PreExact(1)
    /\ value_at(last.pre, 1).ret.some
    /\ \E k \in 1..Len(value_at(last.pre, 1).ret.val) :
          value_at(last.pre, 1).ret.val[k] # Default
    /\ Len(value_at(col, 1).ret.val) = Len(value_at(last.pre, 1).ret.val)
====
